---------------------------- MODULE Spec2Model ----------------------------
(***************************************************************************)
(* LaDiSales MCP server: process start-up (credential check, server        *)
(* creation, tool registration), the tools' request construction and the   *)
(* shared response handler handle_api_response.                            *)
(*                                                                         *)
(* Python values are modelled as records of one shape, so that values of   *)
(* different Python types can be compared:                                 *)
(*    ty : the Python type, n : the number of an int/bool,                 *)
(*    s  : the characters of a str, or the items of a list/dict.           *)
(* float values are not modelled (ints and strs stand for the unions).     *)
(***************************************************************************)
EXTENDS Integers, Sequences, FiniteSets, TLC

VARIABLES boot, API_KEY, headers, registry,
          pc, call, wire, replies, outcome

vars == <<boot, API_KEY, headers, registry, pc, call, wire, replies, outcome>>

procVars == <<boot, API_KEY, headers, registry>>

(***************************************************************************)
(* Bounds of the model.                                                    *)
(***************************************************************************)
\* the largest number of optional parameters one invocation supplies
MaxSet == 2

(***************************************************************************)
(* Python values.                                                          *)
(***************************************************************************)
PyNone == [ty |-> "NoneType", n |-> 0, s |-> <<>>]
PyInt(k) == [ty |-> "int", n |-> k, s |-> <<>>]
PyBool(b) == [ty |-> "bool", n |-> IF b THEN 1 ELSE 0, s |-> <<>>]
PyStr(chars) == [ty |-> "str", n |-> 0, s |-> chars]
PyList(items) == [ty |-> "list", n |-> 0, s |-> items]
PyDict(items) == [ty |-> "dict", n |-> 0, s |-> items]

\* bool(v): the truth value Python's `or`, `and`, `not` and `if` use
Truthy(v) ==
    CASE v.ty = "NoneType" -> FALSE
      [] v.ty \in {"int", "bool"} -> v.n # 0
      [] OTHER -> v.s # <<>>

\* the value passed on without `or d`
Or_WithoutDefault(v, d) == v

\* the default whatever was given
Or_AlwaysDefault(v, d) == d

\* `v or d`
Or(v, d) == IF Truthy(v) THEN v ELSE d

UpperToLower ==
    [c \in {"A","B","C","D","E","F","G","H","I","J","K","L","M",
            "N","O","P","Q","R","S","T","U","V","W","X","Y","Z"} |->
        CASE c = "A" -> "a" [] c = "B" -> "b" [] c = "C" -> "c" [] c = "D" -> "d"
          [] c = "E" -> "e" [] c = "F" -> "f" [] c = "G" -> "g" [] c = "H" -> "h"
          [] c = "I" -> "i" [] c = "J" -> "j" [] c = "K" -> "k" [] c = "L" -> "l"
          [] c = "M" -> "m" [] c = "N" -> "n" [] c = "O" -> "o" [] c = "P" -> "p"
          [] c = "Q" -> "q" [] c = "R" -> "r" [] c = "S" -> "s" [] c = "T" -> "t"
          [] c = "U" -> "u" [] c = "V" -> "v" [] c = "W" -> "w" [] c = "X" -> "x"
          [] c = "Y" -> "y" [] c = "Z" -> "z"]

\* str.lower() on the characters of a string
Lower(chars) ==
    [i \in 1..Len(chars) |->
        IF chars[i] \in DOMAIN UpperToLower THEN UpperToLower[chars[i]] ELSE chars[i]]

Digit == <<"0", "1", "2", "3", "4", "5", "6", "7", "8", "9">>

RECURSIVE NatDigits(_)
NatDigits(k) ==
    IF k < 10 THEN <<Digit[k + 1]>>
    ELSE Append(NatDigits(k \div 10), Digit[(k % 10) + 1])

\* str(v) for an int or a str
Str(v) ==
    CASE v.ty = "str" -> v
      [] v.ty = "int" -> PyStr(IF v.n < 0 THEN <<"-">> \o NatDigits(-v.n) ELSE NatDigits(v.n))
      [] v.ty = "NoneType" -> PyStr(<<"N", "o", "n", "e">>)
      [] OTHER -> PyStr(v.s)

Restrict(f, S) == [k \in S |-> f[k]]

EmptyObj == [k \in {} |-> PyNone]

(***************************************************************************)
(* Strings of the program.                                                 *)
(***************************************************************************)
sPercentage == <<"p", "e", "r", "c", "e", "n", "t", "a", "g", "e">>
sPhysical == <<"P", "h", "y", "s", "i", "c", "a", "l">>
sActive == <<"A", "c", "t", "i", "v", "e">>
sLs == <<"l", "s">>

BASE_URL == "https://apiv5.sales.ldpform.net/2.0/api"
BASE_LOCATION_URL == "https://apiv5.sales.ldpform.net/2.0/public"

DISCOUNT_TYPE_FIXED == 1
DISCOUNT_TYPE_PERCENTAGE == 2

\* the codes of the `type` parameter as the docstrings of create_discount and
\* update_discount give them: "1: Theo %; 2: Theo so tien" (1: by percent; 2: by amount)
DocTypePercent == 1
DocTypeAmount == 2

(***************************************************************************)
(* The tools of each group, in the order their decorators run.             *)
(***************************************************************************)
DiscountTools ==
    <<"search_product_tags", "search_product_variants", "search_customer_tags",
      "search_customers", "create_discount", "update_discount", "delete_discount">>

ProductTools ==
    <<"list_products", "get_product", "create_product", "update_product",
      "delete_product", "list_checkout_configs">>

\* the customer group with a search tool of its own, named as the discount group's
CustomerTools_WithSearch ==
    <<"get_customer", "create_customer", "update_customer", "delete_customer",
      "search_customers">>

CustomerTools ==
    <<"get_customer", "create_customer", "update_customer", "delete_customer">>

LocationTools == <<"list_country", "list_state", "list_district", "list_ward">>

Range(seq) == {seq[i] : i \in 1..Len(seq)}

AllTools ==
    Range(DiscountTools) \cup Range(ProductTools) \cup Range(CustomerTools)
        \cup Range(LocationTools)

(***************************************************************************)
(* The tools' signatures: parameters without a default, parameters with    *)
(* one, and the default.                                                   *)
(***************************************************************************)
Required(t) ==
    CASE t \in {"create_discount"} -> {"name", "code", "type", "value"}
      [] t \in {"update_discount", "delete_discount"} -> {"discount_id"}
      [] t \in {"get_product", "delete_product"} -> {"product_id"}
      [] t = "create_product" -> {"name", "alias_name"}
      [] t = "update_product" -> {"product_id", "name", "alias_name"}
      [] t \in {"get_customer", "update_customer", "delete_customer"} -> {"customer_id"}
      [] t = "create_customer" -> {"first_name", "last_name", "email", "phone"}
      [] t = "list_state" -> {"country_code"}
      [] t = "list_district" -> {"country_code", "state_id"}
      [] t = "list_ward" -> {"country_code", "state_id", "district_id"}
      [] OTHER -> {}

Optional(t) ==
    CASE t \in {"search_product_tags", "search_product_variants",
                "search_customer_tags", "search_customers"} -> {"search"}
      [] t = "create_discount" ->
            {"apply_to", "min_requirement", "customer_groups", "usage_limit",
             "one_per_customer", "start_date", "end_date", "rule_type",
             "allow_promotion"}
      [] t = "update_discount" ->
            {"name", "code", "type", "value", "apply_to", "min_requirement",
             "customer_groups", "usage_limit", "one_per_customer", "start_date",
             "end_date", "rule_type", "allow_promotion"}
      [] t = "list_products" -> {"page", "limit"}
      [] t = "create_product" ->
            {"description", "inventory_checked", "type", "checkout_config_id",
             "status", "external_link", "options", "variants", "tags", "images",
             "product_up_sells"}
      [] t = "update_product" ->
            {"domain", "path", "payment_redirect_url", "payment_redirect_after",
             "description", "price", "price_compare", "cost_per_item", "sku",
             "weight", "weight_unit", "inventory_checked", "quantity", "type",
             "checkout_config_id", "status", "external_link", "variants", "tags",
             "product_up_sells", "is_publish"}
      [] t = "create_customer" -> {"note", "tags", "custom_fields", "address", "ref_type"}
      [] t = "update_customer" ->
            {"first_name", "last_name", "email", "phone", "note", "tags",
             "custom_fields"}
      [] OTHER -> {}

Params(t) == Required(t) \cup Optional(t)

Default(t, p) ==
    CASE t \in {"search_product_tags", "search_product_variants",
                "search_customer_tags", "search_customers"} -> PyStr(<<>>)
      [] t = "create_discount" /\ p \in {"one_per_customer", "rule_type", "allow_promotion"} ->
            PyInt(1)
      [] t = "list_products" /\ p = "page" -> PyInt(1)
      [] t = "list_products" /\ p = "limit" -> PyInt(10)
      [] t = "create_product" /\ p \in {"description", "external_link"} -> PyStr(<<>>)
      [] t = "create_product" /\ p = "inventory_checked" -> PyInt(0)
      [] t \in {"create_product", "update_product"} /\ p = "type" -> PyStr(sPhysical)
      [] t \in {"create_product", "update_product"} /\ p = "status" -> PyStr(sActive)
      [] t = "update_product" /\ p = "payment_redirect_after" -> PyInt(5)
      [] t = "update_product" /\ p = "is_publish" -> PyBool(TRUE)
      [] t = "update_product"
            /\ p \in {"domain", "path", "payment_redirect_url", "description", "price",
                      "price_compare", "cost_per_item", "sku", "weight", "weight_unit",
                      "inventory_checked", "quantity", "external_link"} -> PyStr(<<>>)
      [] t = "create_customer" /\ p = "ref_type" -> PyStr(sLs)
      [] OTHER -> PyNone

\* Python's binding of a call's arguments to the function's parameters
Bind(t, given) ==
    [p \in Params(t) |-> IF p \in DOMAIN given THEN given[p] ELSE Default(t, p)]

(***************************************************************************)
(* The request each tool builds.                                           *)
(***************************************************************************)
\* every tool addressing the transactional base URL
Base_Transactional(t) == BASE_URL

Base(t) == IF t \in Range(LocationTools) THEN BASE_LOCATION_URL ELSE BASE_URL

Path(t) ==
    CASE t = "search_product_tags" -> "/product-tag/search"
      [] t = "search_product_variants" -> "/product-variant/search"
      [] t = "search_customer_tags" -> "/customer-tag/search"
      [] t = "search_customers" -> "/customer/search"
      [] t = "create_discount" -> "/discount/create"
      [] t = "update_discount" -> "/discount/update"
      [] t = "delete_discount" -> "/discount/delete"
      [] t = "list_products" -> "/product/list"
      [] t = "get_product" -> "/product/show"
      [] t = "create_product" -> "/product/create"
      [] t = "update_product" -> "/product/update"
      [] t = "delete_product" -> "/product/delete"
      [] t = "list_checkout_configs" -> "/checkout-config/list"
      [] t = "get_customer" -> "/customer/show"
      [] t = "create_customer" -> "/customer/create"
      [] t = "update_customer" -> "/customer/update"
      [] t = "delete_customer" -> "/customer/delete"
      [] t = "list_country" -> "/address/country/list"
      [] t = "list_state" -> "/address/state/list"
      [] t = "list_district" -> "/address/district/list"
      [] t = "list_ward" -> "/address/ward/list"

\* the verify= argument of the tool's requests.post (requests' default is True)
Verify(t) == t \notin Range(DiscountTools)

\* a Python object handed to json=, or a serialised body: `layers` counts the JSON
\* encodings applied to `obj` (0: the Python object itself)
NoBody == [present |-> FALSE, layers |-> 0, entity |-> "", obj |-> EmptyObj]
Flat(obj) == [present |-> TRUE, layers |-> 0, entity |-> "", obj |-> obj]
Wrapped(entity, obj) == [present |-> TRUE, layers |-> 0, entity |-> entity, obj |-> obj]

\* the comparison without .lower()
CoerceType_CaseSensitive(v) ==
    IF v.ty = "str"
    THEN IF v.s = sPercentage
         THEN PyInt(DISCOUNT_TYPE_PERCENTAGE)
         ELSE PyInt(DISCOUNT_TYPE_FIXED)
    ELSE v

\* `if isinstance(type, str): type = PERCENTAGE if type.lower() == "percentage" else FIXED`
CoerceType(v) ==
    IF v.ty = "str"
    THEN IF Lower(v.s) = sPercentage
         THEN PyInt(DISCOUNT_TYPE_PERCENTAGE)
         ELSE PyInt(DISCOUNT_TYPE_FIXED)
    ELSE v

\* `if x is None: x = {"1": 1}`
DefaultRule(v) == IF v = PyNone THEN PyDict(<<"1:1">>) ELSE v

CreateDiscountData(a) ==
    Wrapped("discount",
        [type |-> CoerceType(a.type),
         value |-> Str(a.value),
         apply_to |-> DefaultRule(a.apply_to),
         min_requirement |-> DefaultRule(a.min_requirement),
         customer_groups |-> DefaultRule(a.customer_groups)] @@ a)

UpdateDiscountData(a) ==
    LET upd == [type |-> CoerceType(a.type),
                value |-> IF a.value # PyNone THEN Str(a.value) ELSE PyNone] @@ a
    IN  Wrapped("discount",
            Restrict(upd, {"discount_id"}
                            \cup {p \in Optional("update_discount") : upd[p] # PyNone}))

CreateProductData(a) ==
    Wrapped("product",
        [tags |-> Or(a.tags, PyList(<<>>)),
         options |-> Or(a.options, PyList(<<>>)),
         variants |-> Or(a.variants, PyList(<<>>)),
         images |-> Or(a.images, PyList(<<>>)),
         product_up_sells |-> Or(a.product_up_sells, PyList(<<>>))] @@ a)

\* update_product without its "Remove None values" line
UpdateProductData_KeepsNone(a) ==
    Wrapped("product",
        [variants |-> Or(a.variants, PyList(<<>>)),
         tags |-> Or(a.tags, PyList(<<>>)),
         product_up_sells |-> Or(a.product_up_sells, PyList(<<>>))] @@ a)

UpdateProductData(a) ==
    LET all == [variants |-> Or(a.variants, PyList(<<>>)),
                tags |-> Or(a.tags, PyList(<<>>)),
                product_up_sells |-> Or(a.product_up_sells, PyList(<<>>))] @@ a
    IN  Wrapped("product", Restrict(all, {k \in DOMAIN all : all[k] # PyNone}))

CreateCustomerData(a) ==
    Wrapped("customer",
        [tags |-> Or(a.tags, PyList(<<>>)),
         custom_fields |-> Or(a.custom_fields, PyList(<<>>)),
         address |-> Or(a.address, PyDict(<<>>))] @@ a)

UpdateCustomerData(a) ==
    Wrapped("customer",
        Restrict(a, {"customer_id"}
                      \cup {p \in Optional("update_customer") : a[p] # PyNone}))

\* the json= argument of the tool's requests.post
Data(t, a) ==
    CASE t = "create_discount" -> CreateDiscountData(a)
      [] t = "update_discount" -> UpdateDiscountData(a)
      [] t = "create_product" -> CreateProductData(a)
      [] t = "update_product" -> UpdateProductData(a)
      [] t = "create_customer" -> CreateCustomerData(a)
      [] t = "update_customer" -> UpdateCustomerData(a)
      [] t \in {"list_country", "list_checkout_configs"} -> NoBody
      [] OTHER -> Flat(a)

\* the check with its `not` lost
CreateProductRejects_NoNot(a) == Truthy(a.options) /\ Truthy(a.variants)

\* `if options and not variants: raise ValueError(...)`
CreateProductRejects(a) == Truthy(a.options) /\ ~Truthy(a.variants)

\* whether the tool raises ValueError before it builds a request
Rejects(t, a) == t = "create_product" /\ CreateProductRejects(a)

(***************************************************************************)
(* The arguments the host runtime may pass to a tool.                      *)
(***************************************************************************)
TypeVals ==
    {PyInt(1), PyInt(2), PyStr(sPercentage),
     PyStr(<<"P", "E", "R", "C", "E", "N", "T", "A", "G", "E">>),
     PyStr(<<"P", "e", "r", "c", "e", "n", "t", "a", "g", "e">>),
     PyStr(<<"f", "i", "x", "e", "d">>), PyStr(<<"2">>), PyStr(<<>>)}

ListParams ==
    {"tags", "custom_fields", "options", "variants", "images", "product_up_sells"}

DictParams == {"address", "apply_to", "min_requirement", "customer_groups"}

IntParams ==
    {"usage_limit", "one_per_customer", "rule_type", "allow_promotion",
     "payment_redirect_after", "page", "limit", "state_id", "district_id",
     "checkout_config_id", "discount_id", "product_id", "customer_id"}

UnionParams ==
    {"value", "price", "price_compare", "cost_per_item", "weight",
     "inventory_checked", "quantity"}

\* the values a caller supplies for parameter p of tool t
ParamVals(t, p) ==
    LET vals ==
          CASE p = "type" /\ t \in {"create_discount", "update_discount"} -> TypeVals
            [] p \in ListParams -> {PyList(<<>>), PyList(<<"a">>)}
            [] p \in DictParams -> {PyDict(<<>>), PyDict(<<"2:5">>)}
            [] p \in IntParams -> {PyInt(0), PyInt(3)}
            [] p \in UnionParams -> {PyStr(<<>>), PyInt(10)}
            [] p = "is_publish" -> {PyBool(FALSE), PyBool(TRUE)}
            [] OTHER -> {PyStr(<<>>), PyStr(<<"x">>)}
    IN  IF p \in Required(t)
        THEN IF p = "type" THEN vals ELSE {CHOOSE v \in vals : Truthy(v)}
        \* passing None where the default is None is the call without the argument
        ELSE IF Default(t, p) = PyNone THEN vals ELSE vals \cup {PyNone}

RECURSIVE Assignments(_, _)
Assignments(t, P) ==
    IF P = {} THEN {EmptyObj}
    ELSE LET p == CHOOSE x \in P : TRUE
         IN  UNION {{(p :> v) @@ f : v \in ParamVals(t, p)} : f \in Assignments(t, P \ {p})}

RECURSIVE OptChoices(_, _)
OptChoices(t, k) ==
    IF k = 0 THEN {EmptyObj}
    ELSE LET prev == OptChoices(t, k - 1)
         IN  prev \cup UNION {UNION {{(p :> v) @@ f : v \in ParamVals(t, p)}
                                        : p \in Optional(t) \ DOMAIN f}
                                : f \in prev}

\* the argument sets of the invocations of tool t: every parameter without a default,
\* and at most MaxSet of the others
Calls(t) == {r @@ o : r \in Assignments(t, Required(t)), o \in OptChoices(t, MaxSet)}

(***************************************************************************)
(* requests: the prepared request, and what a call can come back with.     *)
(***************************************************************************)
JsonLibs == {"json", "simplejson"}

\* complexjson.dumps as requests' prepare_body calls it on the json= argument:
\* a Python object is serialised; an already serialised body (bytes) is refused by
\* the standard json module (TypeError) and encoded once more, as a JSON string,
\* by simplejson
JsonDumps(lib, x) ==
    IF x.layers = 0 THEN [ok |-> TRUE, out |-> [x EXCEPT !.layers = 1]]
    ELSE IF lib = "simplejson" THEN [ok |-> TRUE, out |-> [x EXCEPT !.layers = @ + 1]]
    ELSE [ok |-> FALSE, out |-> x]

PrepareBody(lib, json) ==
    IF json.present THEN JsonDumps(lib, json) ELSE [ok |-> TRUE, out |-> NoBody]

\* a tool that passes headers= only along with a json= body
ToolRequest_HeadersWithBody(t, a) ==
    [method |-> "POST",
     url |-> <<Base(t), Path(t)>>,
     headers |-> IF Data(t, a).present THEN headers ELSE [k \in {} |-> ""],
     body |-> PrepareBody("json", Data(t, a)).out,
     verify |-> Verify(t)]

\* requests.post(f"{base}{path}", headers=headers, json=data[, verify=False]) of tool t
ToolRequest(t, a) ==
    [method |-> "POST",
     url |-> <<Base(t), Path(t)>>,
     headers |-> headers,
     body |-> PrepareBody("json", Data(t, a)).out,
     verify |-> Verify(t)]

\* the certificate fails validation (raised while connecting), and a TLS failure of
\* the established connection
CertError == "SSLError:CERTIFICATE_VERIFY_FAILED"
SSLErrors == {CertError, "SSLError:DECRYPTION_FAILED_OR_BAD_RECORD_MAC"}
TransportErrors == SSLErrors \cup {"ConnectionError", "ReadTimeout"}

\* requests.exceptions.SSLError, the class line 43 catches
IsSSLError(e) == e \in SSLErrors

Statuses == {200, 399, 400, 404}
Texts == {"{\"ok\":true}", "not found"}

\* response.json()
JsonLoads(text) ==
    IF text = "{\"ok\":true}" THEN [ok |-> TRUE, value |-> "{'ok': True}"]
    ELSE [ok |-> FALSE, value |-> ""]

Response(status, text, readErr) ==
    [kind |-> "response", status |-> status, text |-> text, err |-> "", readErr |-> readErr]
TransportFailure(e) ==
    [kind |-> "error", status |-> 0, text |-> "", err |-> e, readErr |-> "none"]

\* what requests.post / requests.request comes back with: a response whose body has
\* been read (stream is off), or a transport error; the certificate cannot fail
\* validation when verify is off
NetOutcomes(verify) ==
    {Response(st, tx, "none") : st \in Statuses, tx \in Texts}
        \cup {TransportFailure(e) :
                e \in IF verify THEN TransportErrors ELSE TransportErrors \ {CertError}}

\* the requests of the statements written after delete_customer's return:
\* requests.get(.../customers/search, params=...), requests.post(.../customers/import,
\* json=...) and requests.delete(.../customers/groups/{group_id})
StatementsAfterReturn ==
    <<[method |-> "GET", url |-> <<BASE_URL, "/customers/search">>,
       headers |-> headers, body |-> NoBody, verify |-> TRUE],
      [method |-> "POST", url |-> <<BASE_URL, "/customers/import">>,
       headers |-> headers, body |-> PrepareBody("json", Flat(EmptyObj)).out,
       verify |-> TRUE],
      [method |-> "DELETE", url |-> <<BASE_URL, "/customers/groups/{group_id}">>,
       headers |-> headers, body |-> NoBody, verify |-> TRUE]>>

\* a tool whose return does not end the call: control runs on into what follows
AfterReturn_FallsThrough(t) ==
    IF t = "delete_customer" THEN StatementsAfterReturn ELSE <<>>

\* the requests a tool sends after `return handle_api_response(response)`: the
\* return ends the call, and what is written after it never runs
AfterReturn(t) == <<>>

(***************************************************************************)
(* handle_api_response.                                                    *)
(***************************************************************************)
NoOutcome == [kind |-> "none", exc |-> "", status |-> 0, text |-> "", value |-> ""]
Return(value) == [kind |-> "return", exc |-> "", status |-> 0, text |-> "", value |-> value]
Raise(exc) == [kind |-> "raise", exc |-> exc, status |-> 0, text |-> "", value |-> ""]
\* Exception(f"API Error: {status} - {text}")
RaiseApiError(status, text) ==
    [kind |-> "raise", exc |-> "Exception", status |-> status, text |-> text, value |-> ""]

\* the check with the boundary status left out
IsErrorStatus_Above400(status) == status > 400

\* `response.status_code >= 400`
IsErrorStatus(status) == status >= 400

\* the handler returning response.text where it should return response.json()
CheckStatus_ReturnsText(resp) ==
    IF resp.readErr # "none" THEN Raise(resp.readErr)
    ELSE IF IsErrorStatus(resp.status) THEN RaiseApiError(resp.status, resp.text)
    ELSE IF JsonLoads(resp.text).ok THEN Return(resp.text)
    ELSE Raise("JSONDecodeError")

\* lines 40-42 (and 53-55): the status check, then response.json(); reading the body
\* of a response that was not read yet raises what the transport raises
CheckStatus(resp) ==
    IF resp.readErr # "none" THEN Raise(resp.readErr)
    ELSE IF IsErrorStatus(resp.status) THEN RaiseApiError(resp.status, resp.text)
    ELSE IF JsonLoads(resp.text).ok THEN Return(JsonLoads(resp.text).value)
    ELSE Raise("JSONDecodeError")

\* line 43: `except requests.exceptions.SSLError`
Caught(out) == out.kind = "raise" /\ IsSSLError(out.exc)

\* lines 39-45: what the handler does with the response it is given
HandleApiResponse(resp) ==
    LET out == CheckStatus(resp)
    IN  IF Caught(out) THEN [next |-> "retry", outcome |-> NoOutcome]
        ELSE [next |-> "done", outcome |-> out]

\* lines 46-52: requests.request(method, url, headers=..., json=request.body, verify=False)
Reissue(lib, req) ==
    LET b == PrepareBody(lib, req.body)
    IN  [ok |-> b.ok,
         req |-> [method |-> req.method, url |-> req.url, headers |-> req.headers,
                  body |-> b.out, verify |-> FALSE]]

\* the reissued call's response returned without the status check
AfterRetry_Unchecked(reply) ==
    IF reply.kind = "error" THEN Raise(reply.err)
    ELSE IF JsonLoads(reply.text).ok THEN Return(JsonLoads(reply.text).value)
    ELSE Raise("JSONDecodeError")

\* lines 46-55 once the reissued call is back: a transport error leaves the handler,
\* a response goes through the status check
AfterRetry(reply) ==
    IF reply.kind = "error" THEN Raise(reply.err) ELSE CheckStatus(reply)

\* a tool that reissues its request after any transport error
AfterPost_RetryAll(reply) ==
    IF reply.kind = "error" THEN [next |-> "retry", outcome |-> NoOutcome]
    ELSE HandleApiResponse(reply)

\* a tool's last two statements: response = requests.post(...);
\* return handle_api_response(response)
AfterPost(reply) ==
    IF reply.kind = "error" THEN [next |-> "done", outcome |-> Raise(reply.err)]
    ELSE HandleApiResponse(reply)

(***************************************************************************)
(* Process start: api/common/common.py is imported (by server.py's first   *)
(* tool-group import), then server.py creates the server and registers the *)
(* groups, then main.py runs it.                                           *)
(***************************************************************************)
Unset == "<unset>"
\* API_KEY in the process environment, and in the .env file
EnvVals == {Unset, "", "secret"}
DotEnvVals == {Unset, "", "secret"}

NoHeaders == [k \in {} |-> ""]
NoCall == [tool |-> "", given |-> EmptyObj]

\* load_dotenv() then os.getenv("API_KEY"): a variable of the environment is not
\* overridden by the .env file; Unset stands for None
GetApiKey(os, dot) == IF os # Unset THEN os ELSE dot

\* `if API_KEY is None`
KeyMissing_NoneOnly(k) == k = Unset

\* `if not API_KEY`
KeyMissing(k) == k = Unset \/ k = ""

MakeHeaders(k) == ("Api-Key" :> k) @@ ("Content-Type" :> "application/json")

\* FastMCP's tool manager keeps the first tool registered under a name
AddTool(reg, name) == IF name \in Range(reg) THEN reg ELSE Append(reg, name)

RECURSIVE AddTools(_, _)
AddTools(reg, names) ==
    IF names = <<>> THEN reg ELSE AddTools(AddTool(reg, Head(names)), Tail(names))

Init ==
    /\ boot = "start"
    /\ API_KEY = Unset
    /\ headers = NoHeaders
    /\ registry = <<>>
    /\ pc = "idle"
    /\ call = NoCall
    /\ wire = <<>>
    /\ replies = <<>>
    /\ outcome = NoOutcome

callVars == <<pc, call, wire, replies, outcome>>

LoadCommon(os, dot) ==
    /\ boot = "start"
    /\ LET k == GetApiKey(os, dot)
       IN  /\ API_KEY' = k
           /\ IF KeyMissing(k)
              THEN boot' = "failed" /\ headers' = headers
              ELSE boot' = "imported" /\ headers' = MakeHeaders(k)
    /\ UNCHANGED <<registry, callVars>>

CreateServer ==
    /\ boot = "imported"
    /\ boot' = "created"
    /\ registry' = <<>>
    /\ UNCHANGED <<API_KEY, headers, callVars>>

RegisterGroup(from, to, names) ==
    /\ boot = from
    /\ boot' = to
    /\ registry' = AddTools(registry, names)
    /\ UNCHANGED <<API_KEY, headers, callVars>>

RegisterDiscountTools == RegisterGroup("created", "discounts", DiscountTools)
RegisterProductTools == RegisterGroup("discounts", "products", ProductTools)
RegisterCustomerTools == RegisterGroup("products", "customers", CustomerTools)
RegisterLocationTools == RegisterGroup("customers", "registered", LocationTools)

Run ==
    /\ boot = "registered"
    /\ boot' = "running"
    /\ UNCHANGED <<API_KEY, headers, registry, callVars>>

(***************************************************************************)
(* A tool invocation.                                                      *)
(***************************************************************************)
\* the tool's body up to its requests.post
Invoke(t, given) ==
    /\ boot = "running"
    /\ pc = "idle"
    /\ t \in Range(registry)
    /\ call' = [tool |-> t, given |-> given]
    /\ replies' = <<>>
    /\ LET a == Bind(t, given)
       IN  IF Rejects(t, a)
           THEN /\ pc' = "done"
                /\ outcome' = Raise("ValueError")
                /\ wire' = <<>>
           ELSE /\ pc' = "awaiting"
                /\ outcome' = NoOutcome
                /\ wire' = <<ToolRequest(t, a)>>
    /\ UNCHANGED procVars

\* what follows a step of the handler, sent being the requests sent so far (the
\* first is response.request) and after those of the caller's statements that run
\* once the handler is back: the result, or the reissued request
Continue(step, sent, after) ==
    IF step.next = "done"
    THEN /\ pc' = "done"
         /\ outcome' = step.outcome
         /\ wire' = sent \o after
    ELSE \E lib \in JsonLibs :
            LET r == Reissue(lib, sent[1])
            IN  IF r.ok
                THEN /\ pc' = "retrying"
                     /\ outcome' = NoOutcome
                     /\ wire' = Append(sent, r.req)
                ELSE /\ pc' = "done"
                     /\ outcome' = Raise("TypeError")
                     /\ wire' = sent

\* the tool's requests.post comes back, and the tool hands the response to the handler
PostReturns(reply) ==
    /\ pc = "awaiting"
    /\ replies' = <<reply>>
    /\ Continue(AfterPost(reply), wire, AfterReturn(call.tool))
    /\ UNCHANGED <<procVars, call>>

\* the handler's reissued request comes back
RetryReturns(reply) ==
    /\ pc = "retrying"
    /\ replies' = Append(replies, reply)
    /\ pc' = "done"
    /\ outcome' = AfterRetry(reply)
    /\ UNCHANGED <<procVars, call, wire>>

\* an invocation that ends by noting its tool in the shared headers
Finish_NotesTool ==
    /\ pc = "done"
    /\ pc' = "idle"
    /\ call' = NoCall
    /\ wire' = <<>>
    /\ replies' = <<>>
    /\ outcome' = NoOutcome
    /\ headers' = ("X-Last-Tool" :> call.tool) @@ headers
    /\ UNCHANGED <<boot, API_KEY, registry>>

\* an invocation that ends by removing the shared headers' entries
Finish_ClearsHeaders ==
    /\ pc = "done"
    /\ pc' = "idle"
    /\ call' = NoCall
    /\ wire' = <<>>
    /\ replies' = <<>>
    /\ outcome' = NoOutcome
    /\ headers' = NoHeaders
    /\ UNCHANGED <<boot, API_KEY, registry>>

\* the result, or the exception, reaches the host runtime
Finish ==
    /\ pc = "done"
    /\ pc' = "idle"
    /\ call' = NoCall
    /\ wire' = <<>>
    /\ replies' = <<>>
    /\ outcome' = NoOutcome
    /\ UNCHANGED procVars

\* The response a tool hands to the handler has been read in full, so the handler's
\* reissue never starts from a tool: RetryReturns is no step of the server.
Next ==
    \/ \E os \in EnvVals, dot \in DotEnvVals : LoadCommon(os, dot)
    \/ CreateServer
    \/ RegisterDiscountTools
    \/ RegisterProductTools
    \/ RegisterCustomerTools
    \/ RegisterLocationTools
    \/ Run
    \/ pc = "idle" /\ \E t \in Range(registry) : \E given \in Calls(t) : Invoke(t, given)
    \/ pc = "awaiting" /\ \E reply \in NetOutcomes(wire[1].verify) : PostReturns(reply)
    \/ Finish

Spec == Init /\ [][Next]_vars

(***************************************************************************)
(* handle_api_response on its own: called with any response object,        *)
(* including one whose body is still to be read from the connection        *)
(* (stream=True), where reading may raise a transport error.               *)
(***************************************************************************)
\* what reading the body may raise: the certificate was validated when connecting
ReadErrs == {"none"} \cup (TransportErrors \ {CertError})

\* the requests the responses answer: those of the tools, called with the
\* parameters that have no default
HandlerRequests ==
    UNION {{ToolRequest(t, Bind(t, g)) : g \in Assignments(t, Required(t))} : t \in AllTools}

HandlerInit ==
    /\ boot = "imported"
    /\ API_KEY = "secret"
    /\ headers = MakeHeaders("secret")
    /\ registry = <<>>
    /\ pc = "idle"
    /\ call = NoCall
    /\ wire = <<>>
    /\ replies = <<>>
    /\ outcome = NoOutcome

HandlerCall(req, resp) ==
    /\ pc = "idle"
    /\ call' = [tool |-> "handle_api_response", given |-> EmptyObj]
    /\ replies' = <<resp>>
    /\ Continue(HandleApiResponse(resp), <<req>>, <<>>)
    /\ UNCHANGED procVars

HandlerNext ==
    \/ pc = "idle" /\ \E req \in HandlerRequests :
         \E st \in Statuses, tx \in Texts, re \in ReadErrs :
            HandlerCall(req, Response(st, tx, re))
    \/ \E reply \in NetOutcomes(FALSE) : RetryReturns(reply)
    \/ Finish

SpecHandler == HandlerInit /\ [][HandlerNext]_vars

(***************************************************************************)
(* Properties.                                                             *)
(***************************************************************************)
UpdateTools == {"update_customer", "update_discount", "update_product"}

\* C1: a response with status >= 400 (400 included) makes the invocation fail with an
\* error carrying that status and the raw body text; nothing is returned and no
\* further request is sent.
C1_StatusErrorRaises ==
    (replies # <<>> /\ replies[1].kind = "response" /\ replies[1].status >= 400)
        => /\ pc = "done"
           /\ outcome.kind = "raise"
           /\ outcome.exc = "Exception"
           /\ outcome.status = replies[1].status
           /\ outcome.text = replies[1].text
           /\ outcome.value = ""
           /\ Len(wire) = 1

C1_Witness ==
    /\ pc = "done"
    /\ replies # <<>>
    /\ replies[1].kind = "response"
    /\ replies[1].status = 400
    /\ outcome.kind = "raise"
    /\ outcome.status = 400

\* C2: when a tool's first HTTP call fails certificate validation, the same request
\* is sent once more with verification off (and a 200 answer to it is the result).
C2_TlsFallbackRetries ==
    (pc = "done" /\ replies # <<>> /\ replies[1].kind = "error"
        /\ replies[1].err = CertError)
        => /\ Len(wire) = 2
           /\ wire[2].verify = FALSE
           /\ wire[2].method = wire[1].method
           /\ wire[2].url = wire[1].url

\* C3: a request the handler reissues equals the original on the wire: method, URL,
\* headers and body.
C3_ReissueIdentical ==
    Len(wire) >= 2
        => /\ wire[2].method = wire[1].method
           /\ wire[2].url = wire[1].url
           /\ wire[2].headers = wire[1].headers
           /\ wire[2].body = wire[1].body

\* C4: in the fallback, a retry answered with status >= 400 fails with the retry's
\* status and body, a transport error of the retry reaches the caller, and no second
\* retry is sent.
C4_RetryOutcome ==
    /\ Len(wire) <= 2
    /\ Len(replies) <= 2
    /\ Len(replies) = 2 => pc = "done"
    /\ (Len(replies) = 2 /\ replies[2].kind = "response" /\ replies[2].status >= 400)
        => /\ outcome.kind = "raise"
           /\ outcome.exc = "Exception"
           /\ outcome.status = replies[2].status
           /\ outcome.text = replies[2].text
    /\ (Len(replies) = 2 /\ replies[2].kind = "error")
        => /\ outcome.kind = "raise"
           /\ outcome.exc = replies[2].err

C4_Witness ==
    /\ pc = "done"
    /\ Len(wire) = 2
    /\ Len(replies) = 2
    /\ IsSSLError(replies[1].readErr)
    /\ replies[2].kind = "response"
    /\ replies[2].status = 404
    /\ outcome.status = 404

\* C5: a transport error of a tool's HTTP call that is no certificate failure reaches
\* the caller at once, and the invocation sends no second request.
C5_TransportErrorPropagates ==
    (replies # <<>> /\ replies[1].kind = "error" /\ replies[1].err # CertError)
        => /\ pc = "done"
           /\ outcome.kind = "raise"
           /\ outcome.exc = replies[1].err
           /\ Len(wire) = 1

C5_Witness ==
    /\ pc = "done"
    /\ replies # <<>>
    /\ replies[1].kind = "error"
    /\ replies[1].err = "ConnectionError"
    /\ outcome.exc = "ConnectionError"
    /\ Len(wire) = 1

\* C6: the entity object an Update tool sends has exactly the keys of the parameters
\* the caller set (the identifier among them): a parameter left unset never appears.
C6_SparseUpdateKeys ==
    (pc = "awaiting" /\ call.tool \in UpdateTools)
        => DOMAIN wire[1].body.obj = {p \in DOMAIN call.given : call.given[p] # PyNone}

\* C7: for an Update tool, leaving an optional parameter out and setting it to an
\* empty string or list give different payloads: without the key, and with the key
\* holding the empty value.
C7_OmittedIsNotCleared ==
    (pc = "awaiting" /\ call.tool \in UpdateTools)
        => \A p \in (DOMAIN call.given) \cap Optional(call.tool) :
              call.given[p] \in {PyStr(<<>>), PyList(<<>>)}
                => LET left == Restrict(call.given, (DOMAIN call.given) \ {p})
                       without == Data(call.tool, Bind(call.tool, left)).obj
                       with == wire[1].body.obj
                   IN  /\ p \notin DOMAIN without
                       /\ p \in DOMAIN with
                       \* a discount's type is sent coerced (C9), so its value is
                       \* not compared with the one given
                       /\ p # "type" => with[p] = call.given[p]
                       /\ with # without

\* C8 as stated: create_product fails with a validation error, sending nothing,
\* whenever options is supplied and variants is not.
C8_OptionsSuppliedRejected ==
    (/\ call.tool = "create_product"
     /\ "options" \in DOMAIN call.given
     /\ call.given["options"] # PyNone
     /\ ("variants" \notin DOMAIN call.given \/ call.given["variants"] = PyNone))
        => /\ pc = "done"
           /\ outcome.kind = "raise"
           /\ outcome.exc = "ValueError"
           /\ wire = <<>>

\* C8, amended: create_product fails with a validation error, sending nothing,
\* whenever options is supplied as a non-empty list and variants is not supplied.
C8_NonEmptyOptionsRejected ==
    (/\ call.tool = "create_product"
     /\ "options" \in DOMAIN call.given
     /\ call.given["options"].ty = "list"
     /\ call.given["options"].s # <<>>
     /\ ("variants" \notin DOMAIN call.given \/ call.given["variants"] = PyNone))
        => /\ pc = "done"
           /\ outcome.kind = "raise"
           /\ outcome.exc = "ValueError"
           /\ wire = <<>>

C8_Witness ==
    /\ call.tool = "create_product"
    /\ "options" \in DOMAIN call.given
    /\ call.given["options"] = PyList(<<"a">>)
    /\ "variants" \notin DOMAIN call.given
    /\ pc = "done"
    /\ outcome.exc = "ValueError"
    /\ wire = <<>>

\* the spellings of "percentage" in either case, letter by letter
PercentageLetters ==
    <<{"p", "P"}, {"e", "E"}, {"r", "R"}, {"c", "C"}, {"e", "E"},
      {"n", "N"}, {"t", "T"}, {"a", "A"}, {"g", "G"}, {"e", "E"}>>

IsPercentageWord(chars) ==
    /\ Len(chars) = Len(PercentageLetters)
    /\ \A i \in 1..Len(chars) : chars[i] \in PercentageLetters[i]

\* C9: create_discount and update_discount send type 2 for a string equal to
\* "percentage" in any case, type 1 for every other string, and an integer type as
\* it was given.
C9_TypeCoercion ==
    (/\ pc = "awaiting"
     /\ call.tool \in {"create_discount", "update_discount"}
     /\ "type" \in DOMAIN call.given)
        => LET given == call.given["type"]
               sent == wire[1].body.obj
           IN  /\ "type" \in DOMAIN sent
               /\ (given.ty = "str" /\ IsPercentageWord(given.s)) => sent["type"] = PyInt(2)
               /\ (given.ty = "str" /\ ~IsPercentageWord(given.s)) => sent["type"] = PyInt(1)
               /\ given.ty = "int" => sent["type"] = given

C9_Witness ==
    /\ pc = "awaiting"
    /\ call.tool = "update_discount"
    /\ "type" \in DOMAIN call.given
    /\ call.given["type"] = PyStr(<<"P", "E", "R", "C", "E", "N", "T", "A", "G", "E">>)
    /\ wire[1].body.obj["type"] = PyInt(2)

\* C10: with the API key absent or empty, start-up fails before the server is
\* created and before any tool is registered; no tool runs and no request is sent.
C10_NoKeyNoServer ==
    (boot # "start" /\ (API_KEY = Unset \/ API_KEY = ""))
        => /\ boot = "failed"
           /\ registry = <<>>
           /\ headers = NoHeaders
           /\ pc = "idle"
           /\ call = NoCall
           /\ wire = <<>>

C10_Witness ==
    /\ boot = "failed"
    /\ API_KEY = ""
    /\ registry = <<>>

\* C11: an invocation that passes validation sends exactly one request when no
\* certificate fails validation, no execution sends more than two, and the statements
\* written after a tool's return send none.
C11_OneRequestPerInvocation ==
    /\ Len(wire) <= 2
    /\ (/\ pc \in {"awaiting", "done"}
        /\ call.tool \in AllTools
        /\ ~Rejects(call.tool, Bind(call.tool, call.given))
        /\ ~(replies # <<>> /\ replies[1].kind = "error" /\ replies[1].err = CertError))
        => Len(wire) = 1
    /\ \A i \in 1..Len(wire) :
          /\ wire[i] \notin Range(StatementsAfterReturn)
          /\ wire[i].url[2] \notin {StatementsAfterReturn[j].url[2] : j \in 1..3}

C11_Witness ==
    /\ pc = "done"
    /\ call.tool = "delete_customer"
    /\ outcome.kind = "return"
    /\ Len(wire) = 1
    /\ wire[1].url = <<BASE_URL, "/customer/delete">>

\* C12: given a response with status below 400 whose body is valid JSON, the handler
\* returns the decoded value of that body and sends no request.
C12_SuccessReturnsJson ==
    (/\ replies # <<>>
     /\ replies[1].kind = "response"
     /\ replies[1].readErr = "none"
     /\ replies[1].status < 400
     /\ JsonLoads(replies[1].text).ok)
        => /\ pc = "done"
           /\ outcome = Return(JsonLoads(replies[1].text).value)
           /\ outcome.value # replies[1].text
           /\ Len(wire) = 1
           /\ Len(replies) = 1

C12_Witness ==
    /\ pc = "done"
    /\ Len(replies) = 1
    /\ replies[1].status = 399
    /\ replies[1].text = "{\"ok\":true}"
    /\ outcome.kind = "return"
    /\ outcome.value = "{'ok': True}"
    /\ Len(wire) = 1

CreateToolsWithLists == {"create_customer", "create_product"}

\* C13: in the payload of create_customer and create_product, every optional list
\* parameter left out is a key holding [] (not missing, not null), and the keys of the
\* payload are the same whatever optional parameters are supplied.
C13_OmittedListsAreEmpty ==
    (pc = "awaiting" /\ call.tool \in CreateToolsWithLists)
        => LET sent == wire[1].body.obj
           IN  /\ wire[1].body.present
               /\ DOMAIN sent = Params(call.tool)
               /\ \A p \in ListParams \cap Optional(call.tool) :
                     (p \notin DOMAIN call.given \/ call.given[p] = PyNone)
                        => /\ p \in DOMAIN sent
                           /\ sent[p] = PyList(<<>>)

C13_Witness ==
    /\ pc = "awaiting"
    /\ call.tool = "create_product"
    /\ DOMAIN call.given = Required("create_product") \cup {"tags", "description"}
    /\ wire[1].body.obj["tags"] = call.given["tags"]
    /\ wire[1].body.obj["tags"] # PyList(<<>>)
    /\ wire[1].body.obj["images"] = PyList(<<>>)
    /\ wire[1].body.obj["options"] = PyList(<<>>)
    /\ DOMAIN wire[1].body.obj = Params("create_product")

DiscountWriteTools == {"create_discount", "update_discount"}

\* C14 as stated: but for a discount's type, every value a caller supplies is in the
\* payload with the same value and the same type.
C14_OnlyTypeIsCoerced ==
    pc = "awaiting"
        => \A p \in DOMAIN call.given :
              ~(call.tool \in DiscountWriteTools /\ p = "type")
                => /\ p \in DOMAIN wire[1].body.obj
                   /\ wire[1].body.obj[p] = call.given[p]

\* C14, amended: but for a discount's type and a discount's value, every value other
\* than None that a caller supplies is in the payload with the same value and the
\* same type; a discount's value is sent as a string, a string value as it is.
C14_SuppliedValuesPassThrough ==
    pc = "awaiting"
        => \A p \in DOMAIN call.given :
              call.given[p] # PyNone
                => LET sent == wire[1].body.obj
                   IN  /\ p \in DOMAIN sent
                       /\ ~(call.tool \in DiscountWriteTools /\ p \in {"type", "value"})
                            => sent[p] = call.given[p]
                       /\ (call.tool \in DiscountWriteTools /\ p = "value")
                            => /\ sent[p].ty = "str"
                               /\ call.given[p].ty = "str" => sent[p] = call.given[p]

C14_Witness ==
    /\ pc = "awaiting"
    /\ call.tool = "update_discount"
    /\ DOMAIN call.given = {"discount_id", "value", "customer_groups"}
    /\ call.given["value"] = PyInt(10)
    /\ wire[1].body.obj["value"] = PyStr(<<"1", "0">>)
    /\ call.given["customer_groups"] = PyDict(<<"2:5">>)
    /\ wire[1].body.obj["customer_groups"] = PyDict(<<"2:5">>)

HasHeader(h, name, value) == name \in DOMAIN h /\ h[name] = value

\* C15: every request sent, one without a body and a reissued one included, has the
\* header Api-Key with the configured key and the header Content-Type with
\* application/json.
C15_HeadersOnEveryRequest ==
    \A i \in 1..Len(wire) :
        /\ HasHeader(wire[i].headers, "Api-Key", API_KEY)
        /\ HasHeader(wire[i].headers, "Content-Type", "application/json")
        /\ API_KEY \notin {Unset, ""}

C15_Witness ==
    /\ Len(wire) = 2
    /\ wire[1].url = <<BASE_LOCATION_URL, "/address/country/list">>
    /\ ~wire[1].body.present
    /\ wire[2].verify = FALSE
    /\ HasHeader(wire[2].headers, "Api-Key", "secret")
    /\ HasHeader(wire[1].headers, "Content-Type", "application/json")

\* C16: once the server runs, no step of an invocation (a request, a result, a status
\* error, a failed validation, a transport error) changes the key or the shared
\* headers, which stay those made at start-up, and every request goes to one of the
\* two base URLs of start-up.
C16_ConfigurationUnchanged ==
    [][boot = "running"
         => /\ API_KEY' = API_KEY
            /\ headers' = headers
            /\ headers' = MakeHeaders(API_KEY)
            /\ \A i \in 1..Len(wire') : wire'[i].url[1] = Base(call'.tool)]_vars

C16_Witness ==
    /\ boot = "running"
    /\ pc = "done"
    /\ call.tool = "create_product"
    /\ outcome.exc = "ValueError"
    /\ headers = MakeHeaders("secret")
    /\ API_KEY = "secret"

\* the interface's endpoint table, by tool
EndpointTable ==
    [t \in AllTools |->
        CASE t = "get_customer" -> "/customer/show"
          [] t = "create_customer" -> "/customer/create"
          [] t = "update_customer" -> "/customer/update"
          [] t = "delete_customer" -> "/customer/delete"
          [] t = "create_discount" -> "/discount/create"
          [] t = "update_discount" -> "/discount/update"
          [] t = "delete_discount" -> "/discount/delete"
          [] t = "search_product_tags" -> "/product-tag/search"
          [] t = "search_product_variants" -> "/product-variant/search"
          [] t = "search_customer_tags" -> "/customer-tag/search"
          [] t = "search_customers" -> "/customer/search"
          [] t = "list_products" -> "/product/list"
          [] t = "get_product" -> "/product/show"
          [] t = "create_product" -> "/product/create"
          [] t = "update_product" -> "/product/update"
          [] t = "delete_product" -> "/product/delete"
          [] t = "list_checkout_configs" -> "/checkout-config/list"
          [] t = "list_country" -> "/address/country/list"
          [] t = "list_state" -> "/address/state/list"
          [] t = "list_district" -> "/address/district/list"
          [] t = "list_ward" -> "/address/ward/list"]

AddressTools == {"list_country", "list_state", "list_district", "list_ward"}

\* C17: every request of a registered tool is a POST to the path the endpoint table
\* gives the tool, under the location base URL for the four address tools and under
\* the transactional base URL for the others; none is a GET or a DELETE.
C17_PostToTablePath ==
    \A i \in 1..Len(wire) :
        /\ call.tool \in Range(registry)
        /\ wire[i].method = "POST"
        /\ wire[i].method \notin {"GET", "DELETE"}
        /\ wire[i].url[2] = EndpointTable[call.tool]
        /\ wire[i].url[1] =
              IF call.tool \in AddressTools
              THEN "https://apiv5.sales.ldpform.net/2.0/public"
              ELSE "https://apiv5.sales.ldpform.net/2.0/api"

C17_Witness ==
    /\ pc = "done"
    /\ call.tool = "list_ward"
    /\ outcome.kind = "return"
    /\ wire = <<[method |-> "POST",
                 url |-> <<BASE_LOCATION_URL, "/address/ward/list">>,
                 headers |-> headers,
                 body |-> wire[1].body,
                 verify |-> TRUE]>>

\* C18: the four groups are registered in the order discounts, products, customers,
\* location; no step registers a name the registry already has, so the names are
\* pairwise different, and the registry ends with 21 tools.
C18_UniqueToolNames ==
    /\ \A i, j \in 1..Len(registry) : registry[i] = registry[j] => i = j
    /\ boot = "created" => registry = <<>>
    /\ boot = "discounts" => registry = DiscountTools
    /\ boot = "products" => registry = DiscountTools \o ProductTools
    /\ boot = "customers" => registry = DiscountTools \o ProductTools \o CustomerTools
    /\ boot \in {"registered", "running"}
        => /\ registry = DiscountTools \o ProductTools \o CustomerTools \o LocationTools
           /\ Len(registry) = 21
           /\ Cardinality(Range(registry)) = 21

C18_Witness ==
    /\ boot = "registered"
    /\ Len(registry) = 21
    /\ Cardinality(Range(registry)) = 21
    /\ registry[4] = "search_customers"
    /\ registry[14] = "get_customer"
    /\ registry[21] = "list_ward"

\* C19: the first request of every tool invocation is sent with certificate
\* verification on; verification is off only on the one request reissued after a
\* certificate failure.
C19_FirstRequestVerifies ==
    /\ (call.tool \in AllTools /\ wire # <<>>) => wire[1].verify = TRUE
    /\ \A i \in 1..Len(wire) :
          wire[i].verify = FALSE
            => /\ i = 2
               /\ replies[1].kind = "error"
               /\ replies[1].err = CertError

\* C20: the integer create_discount and update_discount send for a type string is
\* the code their parameter documentation gives that kind of discount: the percent
\* code for "percentage", the amount code for any other string.
C20_TypeCodeAsDocumented ==
    (/\ pc = "awaiting"
     /\ call.tool \in DiscountWriteTools
     /\ "type" \in DOMAIN call.given
     /\ call.given["type"].ty = "str")
        => wire[1].body.obj["type"] =
              IF IsPercentageWord(call.given["type"].s)
              THEN PyInt(DocTypePercent)
              ELSE PyInt(DocTypeAmount)

UpdateProductLists == {"variants", "tags", "product_up_sells"}

\* C21: the product object update_product sends has no key holding None:
\* checkout_config_id left out, and any parameter passed as None, is not in the
\* payload; product_id, variants, tags and product_up_sells are in every payload, a
\* list that was not supplied as [].
C21_UpdateProductNoneDropped ==
    (pc = "awaiting" /\ call.tool = "update_product")
        => LET sent == wire[1].body.obj
           IN  /\ wire[1].body.entity = "product"
               /\ \A k \in DOMAIN sent : sent[k] # PyNone
               /\ "checkout_config_id" \notin DOMAIN call.given
                    => "checkout_config_id" \notin DOMAIN sent
               /\ \A p \in (DOMAIN call.given) \ UpdateProductLists :
                     call.given[p] = PyNone => p \notin DOMAIN sent
               /\ {"product_id"} \cup UpdateProductLists \subseteq DOMAIN sent
               /\ \A p \in UpdateProductLists :
                     (p \notin DOMAIN call.given \/ call.given[p] = PyNone)
                        => sent[p] = PyList(<<>>)

C21_Witness ==
    /\ pc = "awaiting"
    /\ call.tool = "update_product"
    /\ "domain" \in DOMAIN call.given
    /\ call.given["domain"] = PyNone
    /\ "domain" \notin DOMAIN wire[1].body.obj
    /\ "checkout_config_id" \notin DOMAIN wire[1].body.obj
    /\ wire[1].body.obj["product_id"] = PyInt(3)
    /\ wire[1].body.obj["tags"] = PyList(<<>>)

\* the request of tool t called with the arguments given, under the key of start-up
RequestOf(t, given, key) ==
    [method |-> "POST",
     url |-> <<IF t \in AddressTools THEN BASE_LOCATION_URL ELSE BASE_URL,
              EndpointTable[t]>>,
     headers |-> MakeHeaders(key),
     body |-> PrepareBody("json", Data(t, Bind(t, given))).out,
     verify |-> Verify(t)]

\* C22: the request an invocation sends is a function of its arguments and of the
\* configuration of start-up, whatever invocations came before (ended by a result, a
\* status error, a failed validation or a transport error); no parameter's default,
\* which all calls of a tool share, is a container: the containers [], {} and
\* {"1": 1} are made in the body, by each call.
C22_RequestDependsOnArgumentsOnly ==
    /\ (call.tool \in AllTools /\ wire # <<>>)
        => wire[1] = RequestOf(call.tool, call.given, API_KEY)
    /\ (pc = "awaiting" /\ call.tool \in AllTools)
        => \A p \in Optional(call.tool) :
              /\ Default(call.tool, p).ty \notin {"list", "dict"}
              /\ (p \notin DOMAIN call.given /\ p \in DOMAIN wire[1].body.obj
                    /\ wire[1].body.obj[p].ty \in {"list", "dict"})
                    => wire[1].body.obj[p] \in {PyList(<<>>), PyDict(<<>>), PyDict(<<"1:1">>)}

C22_Witness ==
    /\ pc = "awaiting"
    /\ call.tool = "create_discount"
    /\ "apply_to" \notin DOMAIN call.given
    /\ "customer_groups" \in DOMAIN call.given
    /\ wire[1].body.obj["apply_to"] = PyDict(<<"1:1">>)
    /\ wire[1].body.obj["customer_groups"] = call.given["customer_groups"]
    /\ wire[1].headers = MakeHeaders("secret")
    /\ wire[1] = RequestOf("create_discount", call.given, "secret")

==========================================================================
